---------------------------- MODULE Spec2Model ----------------------------
(***************************************************************************)
(* MoreLikeThis (contrib/queries/search/similar): accumulation of per      *)
(* field term frequencies, scoring and bounded top-K selection with a      *)
(* TermScoreQueue, and assembly of the BooleanQuery / interesting-terms    *)
(* list.  One MoreLikeThis instance over one IndexReader; calls run one    *)
(* after another.                                                          *)
(***************************************************************************)
EXTENDS Integers, Sequences, FiniteSets, TLC

(* ------------------------------ bounds --------------------------------- *)
\* largest maxQueryTerms set by the caller
MaxQT == 3
\* largest number of text sources passed to like(fieldName, readers)
MaxReaders == 2

(* --------------------- strings, terms, the index ----------------------- *)
\* Strings are sequences of character codes.
F1 == <<1>>
F2 == <<2>>
wA == <<1>>
wB == <<1, 2>>
wC == <<2, 1>>
wD == <<1, 2, 3>>
Words == {wA, wB, wC, wD}

\* reader->getFieldNames( IndexReader::FIELD_OPTION_INDEXED )
IndexedFields == {F1, F2}

\* documents of the index
Docs == {0, 1}

\* reader->numDocs()
NumDocs == 5

\* value of std::numeric_limits< int32_t >::max()
INT32_MAX == 2147483647

NoVector == [terms |-> <<>>, freqs |-> <<>>, present |-> FALSE]

\* reader->getTermFreqVector( docNum, fieldName ): only field F1 of document 0
\* stores a term vector.
getTermFreqVector(docNum, fieldName) ==
    IF docNum = 0 /\ fieldName = F1
    THEN [terms |-> <<wA, wB, wC, wD>>, freqs |-> <<2, 1, 1, 2>>, present |-> TRUE]
    ELSE NoVector

\* reader->document( docNum )->getValues( fieldName ): the stored values, each
\* given as the token sequence the analyzer produces for it.  Field F1 of
\* document 1 is indexed but not stored.
getValues(docNum, fieldName) ==
    IF docNum = 0 /\ fieldName = F2 THEN << <<wB, wD, wB, wD>>, <<wD, wA>> >>
    ELSE IF docNum = 1 /\ fieldName = F2 THEN << <<wA, wA, wC, wC>> >>
    ELSE << >>

\* text sources a caller passes to like / retrieveInterestingTerms
Texts == { <<wA, wA, wB>>, <<wB, wD, wD, wB, wC, wC>> }

RECURSIVE SeqsUpTo(_, _)
SeqsUpTo(S, n) ==
    IF n = 0 THEN { << >> }
    ELSE LET shorter == SeqsUpTo(S, n - 1)
         IN  shorter \cup { Append(s, x) : s \in { t \in shorter : Len(t) = n - 1 }, x \in S }

ReaderLists == SeqsUpTo(Texts, MaxReaders)

\* reader->docFreq( term )
docFreqOf(fieldName, word) ==
    IF fieldName = F1
    THEN CASE word = wA -> 1 [] word = wB -> 2 [] word = wC -> 0 [] OTHER -> 4
    ELSE CASE word = wA -> 3 [] word = wB -> 2 [] word = wC -> 5 [] OTHER -> 1

\* similarity->idf( docFreq, numDocs ): positive and decreasing in docFreq
idf(docFreq, numDocs) == numDocs + 1 - docFreq

EmptyMap == [x \in {} |-> 0]

(* ------------------------------ state ---------------------------------- *)
VARIABLES
    \* Configuration (members of MoreLikeThis)
    stopWords, analyzer, minTermFreq, minDocFreq, maxDocFreq, hasBoost,
    fieldNames, maxNumTokensParsed, minWordLen, maxWordLen, maxQueryTerms,
    boostFactor,
    \* the call in progress
    pc,                 \* position of the call
    op,                 \* "like" or "retrieveInterestingTerms"
    form,               \* input form: "docNum", "readers", "reader"
    docNum,             \* argument of the docNum overloads
    argField,           \* fieldName argument of the text overloads
    argReaders,         \* text sources passed to the text overloads
    pendingFields,      \* fields of fieldNames retrieveTerms(docNum) has not visited
    pendingReaders,     \* text sources not yet passed to addTermFrequencies
    field2termFreqMap,  \* the per field word -> tf map of the call
    limit,              \* local of createQueue
    queue,              \* TermScoreQueue: set of TermScore records
    visited,            \* (field, word) entries createQueue has iterated over
    curField,           \* field of the outer loop of createQueue
    bestScore,          \* local of createQuery
    query,              \* clauses of the BooleanQuery
    lim,                \* local of retrieveInterestingTerms
    res,                \* result of retrieveInterestingTerms
    \* observation of the call (not program state)
    drained,            \* TermScores in the order pop() returned them
    offered,            \* clauses passed to query->add, with the outcome
    passed,             \* candidates that passed the thresholds of createQueue
    tokensCounted,      \* per field, counts added by token-mode accumulation
    tokenCount,         \* local of the token loop of addTermFrequencies in progress
    fieldNamesAtEntry,  \* fieldNames when the call was made
    \* the surroundings of the call
    numDocs,            \* reader->numDocs() of the IndexReader
    prev,               \* observation: input and result of the call before
    other               \* position of a like(docNum) running in another thread

cfgVars == <<stopWords, analyzer, minTermFreq, minDocFreq, maxDocFreq, hasBoost,
             fieldNames, maxNumTokensParsed, minWordLen, maxWordLen,
             maxQueryTerms, boostFactor>>
\* the Configuration without fieldNames
cfgOther == <<stopWords, analyzer, minTermFreq, minDocFreq, maxDocFreq, hasBoost,
              maxNumTokensParsed, minWordLen, maxWordLen, maxQueryTerms,
              boostFactor>>
argVars == <<op, form, docNum, argField, argReaders, fieldNamesAtEntry>>
accVars == <<pendingFields, pendingReaders, field2termFreqMap, tokensCounted,
             tokenCount>>
queueVars == <<limit, queue, visited, curField, passed>>
outVars == <<bestScore, query, lim, res, drained, offered>>
\* what no step of a call changes
envVars == <<numDocs, prev, other>>
vars == <<cfgVars, pc, argVars, accVars, queueVars, outVars, envVars>>

(* ----------------------------- defaults -------------------------------- *)
DEFAULT_MAX_NUM_TOKENS_PARSED == 5000
DEFAULT_MIN_TERM_FREQ == 2
DEFAULT_MIN_DOC_FREQ == 5
DEFAULT_MAX_DOC_FREQ == INT32_MAX
DEFAULT_BOOST == FALSE
DEFAULT_MIN_WORD_LENGTH == 0
DEFAULT_MAX_WORD_LENGTH == 0
DEFAULT_MAX_QUERY_TERMS == 25

NoField == << >>

\* no call has returned yet
NoPrev ==
    [op |-> "none", form |-> "none", docNum |-> 0, argField |-> NoField,
     argReaders |-> << >>, fieldNamesAtEntry |-> {}, outcome |-> "none",
     clauses |-> << >>, texts |-> << >>, allAdded |-> TRUE]

\* state of the call-scoped variables when no call is running
CallReset ==
    /\ pc = "idle"
    /\ op = "none" /\ form = "none" /\ docNum = 0 /\ argField = NoField
    /\ argReaders = << >> /\ fieldNamesAtEntry = {}
    /\ pendingFields = {} /\ pendingReaders = << >>
    /\ field2termFreqMap = EmptyMap /\ tokensCounted = EmptyMap
    /\ tokenCount = 0
    /\ limit = 0 /\ queue = {} /\ visited = {} /\ curField = NoField
    /\ passed = {}
    /\ bestScore = -1 /\ query = << >> /\ lim = 0 /\ res = << >>
    /\ drained = << >> /\ offered = << >>

\* The constructor followed by the setters the caller used: selection is
\* exercised with the default noise filter, accumulation with the noise
\* filter, the analyzer and the token limit varied.
InitSelection ==
    /\ minTermFreq \in {0, DEFAULT_MIN_TERM_FREQ}
    /\ minDocFreq \in {0, 2, DEFAULT_MIN_DOC_FREQ}
    /\ maxDocFreq \in {3, DEFAULT_MAX_DOC_FREQ}
    /\ maxQueryTerms \in 0..MaxQT
    /\ hasBoost \in BOOLEAN
    /\ boostFactor \in {1, 2}
    /\ fieldNames \in {{}, {F1, F2}}
    /\ stopWords = {}
    /\ analyzer = TRUE
    /\ maxNumTokensParsed = DEFAULT_MAX_NUM_TOKENS_PARSED
    /\ minWordLen = DEFAULT_MIN_WORD_LENGTH
    /\ maxWordLen = DEFAULT_MAX_WORD_LENGTH

InitAccumulation ==
    /\ minTermFreq = 0
    /\ minDocFreq = 0
    /\ maxDocFreq = DEFAULT_MAX_DOC_FREQ
    /\ maxQueryTerms = DEFAULT_MAX_QUERY_TERMS
    /\ hasBoost = DEFAULT_BOOST
    /\ boostFactor = 1
    /\ fieldNames \in {{}, {F2}, {F1, F2}}
    /\ stopWords \in {{}, {wB}}
    /\ analyzer \in BOOLEAN
    /\ maxNumTokensParsed \in {1, 3, DEFAULT_MAX_NUM_TOKENS_PARSED}
    /\ minWordLen \in {DEFAULT_MIN_WORD_LENGTH, 2}
    /\ maxWordLen \in {DEFAULT_MAX_WORD_LENGTH, 2}

Init ==
    /\ InitSelection \/ InitAccumulation
    /\ CallReset
    /\ numDocs = NumDocs /\ prev = NoPrev /\ other = "idle"

(* ------------------------- noise filter -------------------------------- *)
\* MoreLikeThis::isNoiseWord
isNoiseWord(term) ==
    LET len == Len(term)
    IN  IF minWordLen > 0 /\ len < minWordLen THEN TRUE
        ELSE IF maxWordLen > 0 /\ len > maxWordLen THEN TRUE
        ELSE term \in stopWords

(* ------------------------ accumulation --------------------------------- *)
\* termFreqMap[term] += n, creating the entry with 0 first
Increment(termFreqMap, term, n) ==
    IF term \in DOMAIN termFreqMap
    THEN [termFreqMap EXCEPT ![term] = @ + n]
    ELSE termFreqMap @@ (term :> n)

\* field2termFreqMap[fieldName], created empty when absent
WithField(map, fieldName) ==
    IF fieldName \in DOMAIN map THEN map ELSE map @@ (fieldName :> EmptyMap)

\* VectorLoop without the isNoiseWord check
RECURSIVE VectorLoop_NoNoiseCheck(_, _, _)
VectorLoop_NoNoiseCheck(vector, ii, termFreqMap) ==
    IF ii > Len(vector.terms) THEN termFreqMap
    ELSE VectorLoop_NoNoiseCheck(vector, ii + 1,
                     Increment(termFreqMap, vector.terms[ii], vector.freqs[ii]))

\* loop of addTermFrequencies( field2termFreqMap, vector, fieldName ), from
\* index ii
RECURSIVE VectorLoop(_, _, _)
VectorLoop(vector, ii, termFreqMap) ==
    IF ii > Len(vector.terms) THEN termFreqMap
    ELSE IF isNoiseWord(vector.terms[ii])
         THEN VectorLoop(vector, ii + 1, termFreqMap)
         ELSE VectorLoop(vector, ii + 1,
                         Increment(termFreqMap, vector.terms[ii], vector.freqs[ii]))

\* addTermFrequencies( field2termFreqMap, vector, fieldName )
addTermFrequenciesVector(map, vector, fieldName) ==
    IF vector.present
    THEN LET m == WithField(map, fieldName)
         IN  [m EXCEPT ![fieldName] = VectorLoop(vector, 1, @)]
    ELSE map

\* token loop of addTermFrequencies( r, perFieldTermFrequencies, fieldName ):
\* ts[i] is the token incrementToken() delivers when tokenCount is i - 1
RECURSIVE TokenLoop(_, _, _)
TokenLoop(ts, i, termFreqMap) ==
    IF i > Len(ts) THEN termFreqMap
    ELSE IF i > maxNumTokensParsed THEN termFreqMap
    ELSE IF isNoiseWord(ts[i]) THEN TokenLoop(ts, i + 1, termFreqMap)
    ELSE TokenLoop(ts, i + 1, Increment(termFreqMap, ts[i], 1))

\* addTermFrequencies( r, perFieldTermFrequencies, fieldName ) with an analyzer
addTermFrequenciesReader(r, map, fieldName) ==
    LET m == WithField(map, fieldName)
    IN  [m EXCEPT ![fieldName] = TokenLoop(r, 1, @)]

\* the values of retrieveTerms( docNum ) for one field passed one after
\* another to addTermFrequencies
RECURSIVE AddValues(_, _, _)
AddValues(values, map, fieldName) ==
    IF values = << >> THEN map
    ELSE AddValues(Tail(values), addTermFrequenciesReader(Head(values), map, fieldName),
                   fieldName)

\* sum of the counts of a word -> count map
RECURSIVE SumMap(_)
SumMap(m) ==
    IF DOMAIN m = {} THEN 0
    ELSE LET k == CHOOSE x \in DOMAIN m : TRUE
         IN  m[k] + SumMap([x \in (DOMAIN m) \ {k} |-> m[x]])

FieldTotal(map, fieldName) ==
    IF fieldName \in DOMAIN map THEN SumMap(map[fieldName]) ELSE 0

\* tokensCounted after token-mode accumulation turned map into newMap
Counted(map, newMap, fieldName) ==
    LET added == FieldTotal(newMap, fieldName) - FieldTotal(map, fieldName)
    IN  Increment(tokensCounted, fieldName, added)

(* ------------------------- ordering of terms --------------------------- *)
\* String::compare: lexicographic, negative / zero / positive
RECURSIVE compareString(_, _)
compareString(a, b) ==
    IF a = << >> /\ b = << >> THEN 0
    ELSE IF a = << >> THEN -1
    ELSE IF b = << >> THEN 1
    ELSE IF Head(a) < Head(b) THEN -1
    ELSE IF Head(a) > Head(b) THEN 1
    ELSE compareString(Tail(a), Tail(b))

\* Term::compareTo: by field, then by text
termCompareTo(a, b) ==
    IF a.field = b.field THEN compareString(a.word, b.word)
    ELSE compareString(a.field, b.field)

\* MoreLikeThis::TermScore::compareTo
compareTo(this, tsp) ==
    IF this.score = tsp.score
    THEN termCompareTo(tsp, this)
    ELSE IF this.score < tsp.score THEN -1
         ELSE IF this.score > tsp.score THEN 1 ELSE 0

\* MoreLikeThis::TermScoreQueue::lessThan
lessThan(first, second) == compareTo(first, second) < 0

(* -------------------------- TermScoreQueue ----------------------------- *)
\* PriorityQueue::top of a non-empty queue: the least element under lessThan
top(q) == CHOOSE st \in q : \A o \in q \ {st} : lessThan(st, o)

\* the queue after PriorityQueue::pop, which removes the element top() returns
afterPop(q) == q \ {top(q)}

\* MoreLikeThis::getTermsCount
getTermsCount(perFieldTermFrequencies) ==
    LET entries == { <<f, w>> \in (DOMAIN perFieldTermFrequencies) \X Words :
                        w \in DOMAIN perFieldTermFrequencies[f] }
    IN  Cardinality(entries)

Min(a, b) == IF a < b THEN a ELSE b

\* entries of the table, as (field, word) pairs
Entries(map) ==
    { <<f, w>> \in (DOMAIN map) \X Words : w \in DOMAIN map[f] }

\* PassesThresholds without the maxDocFreq check
PassesThresholds_NoMaxDocFreq(tf, docFreq) ==
    /\ ~(minTermFreq > 0 /\ tf < minTermFreq)
    /\ ~(minDocFreq > 0 /\ docFreq < minDocFreq)
    /\ ~(docFreq = 0)

\* PassesThresholds without the docFreq == 0 check
PassesThresholds_NoZeroDocFreq(tf, docFreq) ==
    /\ ~(minTermFreq > 0 /\ tf < minTermFreq)
    /\ ~(minDocFreq > 0 /\ docFreq < minDocFreq)
    /\ ~(docFreq > maxDocFreq)

\* PassesThresholds without the minTermFreq check
PassesThresholds_NoMinTermFreq(tf, docFreq) ==
    /\ ~(minDocFreq > 0 /\ docFreq < minDocFreq)
    /\ ~(docFreq > maxDocFreq)
    /\ ~(docFreq = 0)

\* the frequency and document-frequency thresholds of createQueue
PassesThresholds(tf, docFreq) ==
    /\ ~(minTermFreq > 0 /\ tf < minTermFreq)
    /\ ~(minDocFreq > 0 /\ docFreq < minDocFreq)
    /\ ~(docFreq > maxDocFreq)
    /\ ~(docFreq = 0)

\* Insert that discards every candidate once the queue is full
Insert_NeverReplaces(q, lmt, st) ==
    IF Cardinality(q) < lmt THEN q \cup {st} ELSE q

\* Insert with the space test off by one
Insert_OffByOne(q, lmt, st) ==
    IF Cardinality(q) <= lmt
    THEN q \cup {st}
    ELSE IF top(q).score < st.score
         THEN (q \ {top(q)}) \cup {st}
         ELSE q

\* Insert that adds every candidate
Insert_AlwaysAdds(q, lmt, st) == q \cup {st}

\* the insertion policy of createQueue on a queue whose top() is not null
Insert(q, lmt, st) ==
    IF Cardinality(q) < lmt
    THEN q \cup {st}
    ELSE IF top(q).score < st.score
         THEN (q \ {top(q)}) \cup {st}
         ELSE q

(* ---------------------------- the calls -------------------------------- *)
Begin(o, fm, d, f, flds, rdrs) ==
    /\ pc = "idle"
    /\ pc' = "retrieveTerms"
    /\ op' = o /\ form' = fm /\ docNum' = d /\ argField' = f
    /\ argReaders' = rdrs /\ fieldNamesAtEntry' = fieldNames
    /\ pendingFields' = flds /\ pendingReaders' = rdrs
    /\ UNCHANGED <<field2termFreqMap, tokensCounted, tokenCount, queueVars, outVars>>

\* LazyFieldNames that overwrites a configured field set
LazyFieldNames_Always == IndexedFields

\* like( docNum ): the field set the call leaves in fieldNames
LazyFieldNames ==
    IF fieldNames = {} THEN IndexedFields ELSE fieldNames

\* like( docNum )
Like_docNum(d) ==
    /\ fieldNames' = LazyFieldNames
    /\ Begin("like", "docNum", d, NoField, fieldNames', << >>)
    /\ UNCHANGED <<envVars, cfgOther>>

\* like( fieldName, readers )
Like_readers(f, rs) ==
    /\ Begin("like", "readers", 0, f, {}, rs)
    /\ UNCHANGED <<envVars, cfgVars>>

\* retrieveInterestingTerms( docNum )
RetrieveInterestingTerms_docNum(d) ==
    /\ Begin("retrieveInterestingTerms", "docNum", d, NoField, fieldNames, << >>)
    /\ UNCHANGED <<envVars, cfgVars>>

\* retrieveInterestingTerms( fieldName, readers )
RetrieveInterestingTerms_readers(f, rs) ==
    /\ Begin("retrieveInterestingTerms", "readers", 0, f, {}, rs)
    /\ UNCHANGED <<envVars, cfgVars>>

\* retrieveInterestingTerms( r, fieldName )
RetrieveInterestingTerms_reader(r, f) ==
    /\ Begin("retrieveInterestingTerms", "reader", 0, f, {}, <<r>>)
    /\ UNCHANGED <<envVars, cfgVars>>

\* analyzerMissing that never reports the missing analyzer
analyzerMissing_Never == FALSE

\* the check of addTermFrequencies( r, ... ) for a missing analyzer
analyzerMissing == ~analyzer

\* the UnsupportedOperationException of addTermFrequencies leaves the call
Throw ==
    /\ pc' = "failed"
    /\ UNCHANGED <<field2termFreqMap, tokensCounted>>

\* one iteration of the loop of retrieveTerms( docNum ) over fieldNames
RetrieveTermsField ==
    /\ pc = "retrieveTerms" /\ form = "docNum"
    /\ \E fieldName \in pendingFields :
         LET vector == getTermFreqVector(docNum, fieldName)
             values == getValues(docNum, fieldName)
         IN  /\ pendingFields' = pendingFields \ {fieldName}
             /\ IF ~vector.present
                THEN IF values # << >> /\ analyzerMissing
                     THEN Throw
                     ELSE /\ field2termFreqMap' =
                                AddValues(values, field2termFreqMap, fieldName)
                          /\ tokensCounted' =
                                IF values = << >> THEN tokensCounted
                                ELSE Counted(field2termFreqMap, field2termFreqMap',
                                             fieldName)
                          /\ pc' = pc
                ELSE /\ field2termFreqMap' =
                           addTermFrequenciesVector(field2termFreqMap, vector, fieldName)
                     /\ UNCHANGED tokensCounted
                     /\ pc' = pc
    /\ UNCHANGED <<envVars, cfgVars, argVars, pendingReaders, tokenCount, queueVars,
                   outVars>>

\* one iteration of the loop of retrieveTerms( fieldName, readers ), or the
\* single addTermFrequencies of retrieveTerms( r, fieldName )
RetrieveTermsReader ==
    /\ pc = "retrieveTerms" /\ form \in {"readers", "reader"}
    /\ pendingReaders # << >>
    /\ pendingReaders' = Tail(pendingReaders)
    /\ IF analyzerMissing
       THEN Throw
       ELSE /\ field2termFreqMap' =
                  addTermFrequenciesReader(Head(pendingReaders), field2termFreqMap,
                                           argField)
            /\ tokensCounted' = Counted(field2termFreqMap, field2termFreqMap', argField)
            /\ pc' = pc
    /\ UNCHANGED <<envVars, cfgVars, argVars, pendingFields, tokenCount, queueVars,
                   outVars>>

\* entry of createQueue: limit and the empty queue
CreateQueueBegin ==
    /\ pc = "retrieveTerms"
    /\ pendingFields = {} /\ pendingReaders = << >>
    /\ pc' = "createQueue"
    /\ limit' = Min(maxQueryTerms, getTermsCount(field2termFreqMap))
    /\ queue' = {}
    /\ visited' = {} /\ curField' = NoField /\ passed' = {}
    /\ UNCHANGED <<envVars, cfgVars, argVars, accVars, outVars>>

\* the entries the nested loops of createQueue may visit next: the words of
\* one field are visited together, fields and words in the order of the maps
NextEntries ==
    LET all == Entries(field2termFreqMap)
        left == all \ visited
        started == { e[1] : e \in visited }
    IN  IF \E e \in left : e[1] = curField
        THEN { e \in left : e[1] = curField }
        ELSE { e \in left : e[1] \notin started }

\* body of the inner loop of createQueue for one (field, word)
CreateQueueStep ==
    /\ pc = "createQueue"
    /\ \E e \in NextEntries :
         LET fieldName == e[1]
             word == e[2]
             tf == field2termFreqMap[fieldName][word]
             docFreq == docFreqOf(fieldName, word)
             score == tf * idf(docFreq, numDocs)
             st == [field |-> fieldName, word |-> word, score |-> score]
         IN  /\ visited' = visited \cup {e}
             /\ curField' = fieldName
             /\ IF ~PassesThresholds(tf, docFreq)
                THEN UNCHANGED <<queue, passed, pc>>
                ELSE /\ passed' = passed \cup {st}
                     /\ IF ~(Cardinality(queue) < limit) /\ queue = {}
                        THEN \* queue->top() is null: st->score reads through it
                             /\ UNCHANGED queue
                             /\ pc' \in {"crashed", pc}
                        ELSE /\ queue' = Insert(queue, limit, st)
                             /\ pc' = pc
    /\ UNCHANGED <<envVars, cfgVars, argVars, accVars, limit, outVars>>

\* createQueue returns the queue to createQuery or retrieveInterestingTerms
CreateQueueReturn ==
    /\ pc = "createQueue"
    /\ NextEntries = {}
    /\ pc' = IF op = "like" THEN "createQuery" ELSE "retrieveInterestingTerms"
    /\ bestScore' = -1
    /\ query' = << >>
    /\ lim' = maxQueryTerms
    /\ res' = << >>
    /\ UNCHANGED <<envVars, cfgVars, argVars, accVars, queueVars, drained, offered>>

\* Boost that divides by the clause's own score
Boost_OwnScore(myScore, best) == [num |-> boostFactor * myScore, den |-> myScore]

\* the boost createQuery sets on a clause, boostFactor * myScore / bestScore,
\* as numerator and denominator
Boost(myScore, best) == [num |-> boostFactor * myScore, den |-> best]

\* AfterAdd that loses the clauses added before the failure
AfterAdd_DropsEarlier(clauses, tq, tooManyClauses) ==
    IF tooManyClauses THEN << >> ELSE Append(clauses, tq)

\* query->add( tq, BooleanClause::SHOULD ) inside the try block: the clauses
\* of the query afterwards
AfterAdd(clauses, tq, tooManyClauses) ==
    IF tooManyClauses THEN clauses ELSE Append(clauses, tq)

\* one iteration of the loop of createQuery; query->add may throw
\* TooManyClausesException, which is caught and ignored
CreateQueryStep ==
    /\ pc = "createQuery"
    /\ queue # {}
    /\ LET scoreTerm == top(queue)
           best == IF hasBoost /\ bestScore = -1 THEN scoreTerm.score ELSE bestScore
           tq == [field |-> scoreTerm.field, word |-> scoreTerm.word,
                  boostSet |-> hasBoost,
                  boost |-> IF hasBoost THEN Boost(scoreTerm.score, best)
                            ELSE [num |-> 1, den |-> 1]]
       IN  /\ queue' = afterPop(queue)
           /\ drained' = Append(drained, scoreTerm)
           /\ bestScore' = best
           /\ \E tooManyClauses \in BOOLEAN :
                /\ offered' = Append(offered, [tq |-> tq, added |-> ~tooManyClauses])
                /\ query' = AfterAdd(query, tq, tooManyClauses)
    /\ UNCHANGED <<envVars, cfgVars, pc, argVars, accVars, limit, visited, curField, passed,
                   lim, res>>

\* pop() returned null: createQuery returns the query
CreateQueryReturn ==
    /\ pc = "createQuery"
    /\ queue = {}
    /\ pc' = "done"
    /\ UNCHANGED <<envVars, cfgVars, argVars, accVars, queueVars, outVars>>

\* one iteration of the loop of retrieveInterestingTerms( pq )
RetrieveInterestingTermsStep ==
    /\ pc = "retrieveInterestingTerms"
    /\ queue # {}
    /\ lim > 0
    /\ LET scoreTerm == top(queue)
       IN  /\ queue' = afterPop(queue)
           /\ drained' = Append(drained, scoreTerm)
           /\ res' = Append(res, scoreTerm.word)
    /\ lim' = lim - 1
    /\ UNCHANGED <<envVars, cfgVars, pc, argVars, accVars, limit, visited, curField, passed,
                   bestScore, query, offered>>

\* the loop condition of retrieveInterestingTerms( pq ) is false
RetrieveInterestingTermsReturn ==
    /\ pc = "retrieveInterestingTerms"
    /\ \/ /\ queue = {}
          /\ UNCHANGED <<queue, lim, drained>>
       \/ /\ queue # {} /\ ~(lim > 0)
          /\ queue' = afterPop(queue)
          /\ drained' = Append(drained, top(queue))
          /\ lim' = lim - 1
    /\ pc' = "done"
    /\ UNCHANGED <<envVars, cfgVars, argVars, accVars, limit, visited, curField, passed,
                   bestScore, query, res, offered>>

\* the call returns or its exception reaches the caller; the table, the queue
\* and the result belong to the call
ReturnToCaller ==
    /\ pc \in {"done", "failed"}
    /\ pc' = "idle"
    /\ op' = "none" /\ form' = "none" /\ docNum' = 0 /\ argField' = NoField
    /\ argReaders' = << >> /\ fieldNamesAtEntry' = {}
    /\ pendingFields' = {} /\ pendingReaders' = << >>
    /\ field2termFreqMap' = EmptyMap /\ tokensCounted' = EmptyMap
    /\ tokenCount' = 0
    /\ limit' = 0 /\ queue' = {} /\ visited' = {} /\ curField' = NoField
    /\ passed' = {}
    /\ bestScore' = -1 /\ query' = << >> /\ lim' = 0 /\ res' = << >>
    /\ drained' = << >> /\ offered' = << >>
    /\ UNCHANGED <<envVars, cfgVars>>

Next ==
    \/ \E d \in Docs : Like_docNum(d)
    \/ \E f \in IndexedFields, rs \in ReaderLists : Like_readers(f, rs)
    \/ \E d \in Docs : RetrieveInterestingTerms_docNum(d)
    \/ \E f \in IndexedFields, rs \in ReaderLists : RetrieveInterestingTerms_readers(f, rs)
    \/ \E f \in IndexedFields, r \in Texts : RetrieveInterestingTerms_reader(r, f)
    \/ RetrieveTermsField
    \/ RetrieveTermsReader
    \/ CreateQueueBegin
    \/ CreateQueueStep
    \/ CreateQueueReturn
    \/ CreateQueryStep
    \/ CreateQueryReturn
    \/ RetrieveInterestingTermsStep
    \/ RetrieveInterestingTermsReturn
    \/ ReturnToCaller

Spec == Init /\ [][Next]_vars

(* ------------------ the same input given a second time ----------------- *)
\* the term texts of the clauses of a query
TermTexts(clauses) == [i \in DOMAIN clauses |-> clauses[i].word]

\* the first call may have any input, the second has the input of the first
SameInputAsBefore(fm, d, f, rdrs) ==
    \/ prev.op = "none"
    \/ /\ prev.op # "none"
       /\ prev.form = fm /\ prev.docNum = d
       /\ prev.argField = f /\ prev.argReaders = rdrs

\* the first call returns; its input and its result are kept for comparison
ReturnKeepingResult ==
    /\ pc \in {"done", "failed"}
    /\ prev.op = "none"
    /\ prev' = [op |-> op, form |-> form, docNum |-> docNum,
                argField |-> argField, argReaders |-> argReaders,
                fieldNamesAtEntry |-> fieldNamesAtEntry,
                outcome |-> pc,
                clauses |-> query,
                texts |-> IF op = "like" THEN TermTexts(query) ELSE res,
                allAdded |-> \A i \in DOMAIN offered : offered[i].added]
    /\ pc' = "idle"
    /\ op' = "none" /\ form' = "none" /\ docNum' = 0 /\ argField' = NoField
    /\ argReaders' = << >> /\ fieldNamesAtEntry' = {}
    /\ pendingFields' = {} /\ pendingReaders' = << >>
    /\ field2termFreqMap' = EmptyMap /\ tokensCounted' = EmptyMap
    /\ tokenCount' = 0
    /\ limit' = 0 /\ queue' = {} /\ visited' = {} /\ curField' = NoField
    /\ passed' = {}
    /\ bestScore' = -1 /\ query' = << >> /\ lim' = 0 /\ res' = << >>
    /\ drained' = << >> /\ offered' = << >>
    /\ UNCHANGED <<cfgVars, numDocs, other>>

\* the setters the caller used before the two calls: boosting off
InitTwice ==
    /\ minTermFreq = 0
    /\ minDocFreq \in {0, 2}
    /\ maxDocFreq = DEFAULT_MAX_DOC_FREQ
    /\ maxQueryTerms \in 1..(MaxQT - 1)
    /\ hasBoost = DEFAULT_BOOST
    /\ boostFactor = 1
    /\ fieldNames \in {{}, {F1, F2}}
    /\ stopWords = {}
    /\ analyzer = TRUE
    /\ maxNumTokensParsed = DEFAULT_MAX_NUM_TOKENS_PARSED
    /\ minWordLen = DEFAULT_MIN_WORD_LENGTH
    /\ maxWordLen = DEFAULT_MAX_WORD_LENGTH
    /\ CallReset
    /\ numDocs = NumDocs /\ prev = NoPrev /\ other = "idle"

NextTwice ==
    \/ \E d \in Docs :
          SameInputAsBefore("docNum", d, NoField, << >>) /\ Like_docNum(d)
    \/ \E f \in IndexedFields, rs \in ReaderLists :
          SameInputAsBefore("readers", 0, f, rs) /\ Like_readers(f, rs)
    \/ \E d \in Docs :
          SameInputAsBefore("docNum", d, NoField, << >>)
              /\ RetrieveInterestingTerms_docNum(d)
    \/ \E f \in IndexedFields, rs \in ReaderLists :
          SameInputAsBefore("readers", 0, f, rs)
              /\ RetrieveInterestingTerms_readers(f, rs)
    \/ \E f \in IndexedFields, r \in Texts :
          SameInputAsBefore("reader", 0, f, <<r>>)
              /\ RetrieveInterestingTerms_reader(r, f)
    \/ RetrieveTermsField
    \/ RetrieveTermsReader
    \/ CreateQueueBegin
    \/ CreateQueueStep
    \/ CreateQueueReturn
    \/ CreateQueryStep
    \/ CreateQueryReturn
    \/ RetrieveInterestingTermsStep
    \/ RetrieveInterestingTermsReturn
    \/ ReturnKeepingResult

SpecTwice == InitTwice /\ [][NextTwice]_vars

(* ---------------- calls of two threads on one instance ------------------ *)
\* like( docNum ) / retrieveInterestingTerms( docNum ) has been called and has
\* not read fieldNames yet
Call_docNum(o, d) ==
    /\ pc = "idle"
    /\ pc' = "called"
    /\ op' = o /\ form' = "docNum" /\ docNum' = d
    /\ fieldNamesAtEntry' = fieldNames
    /\ UNCHANGED <<argField, argReaders, accVars, queueVars, outVars, envVars, cfgVars>>

\* the call reads fieldNames: like( docNum ) fills an empty set first, then
\* retrieveTerms( docNum ) starts its loop over the set
ReadFieldNames ==
    /\ pc = "called"
    /\ fieldNames' = IF op = "like" THEN LazyFieldNames ELSE fieldNames
    /\ pendingFields' = fieldNames'
    /\ pc' = "retrieveTerms"
    /\ UNCHANGED <<argVars, pendingReaders, field2termFreqMap, tokensCounted, tokenCount,
                   queueVars, outVars, envVars, cfgOther>>

\* otherSeesEmpty that takes every field set for empty
otherSeesEmpty_Always == TRUE

\* fieldNames.empty() as like( docNum ) of the other thread evaluates it
otherSeesEmpty == fieldNames = {}

\* the other thread calls like( docNum ) and tests fieldNames.empty()
OtherLikeChecks ==
    /\ other = "idle"
    /\ other' = IF otherSeesEmpty THEN "assigning" ELSE "retrieveTerms"
    /\ UNCHANGED <<cfgVars, pc, argVars, accVars, queueVars, outVars, numDocs, prev>>

\* the other thread assigns the indexed fields to fieldNames.  Assigning the
\* set while retrieveTerms( docNum ) of this thread iterates over it is a data
\* race: the loop goes on or the process dies.
OtherLikeAssigns ==
    /\ other = "assigning"
    /\ other' = "retrieveTerms"
    /\ fieldNames' = IndexedFields
    /\ pc' \in IF pc = "retrieveTerms" /\ form = "docNum" /\ pendingFields # {}
               THEN {pc, "crashed"} ELSE {pc}
    /\ UNCHANGED <<cfgOther, argVars, accVars, queueVars, outVars, numDocs, prev>>

\* like( docNum ) of the other thread returns; after the assignment it only
\* reads the Configuration
OtherLikeReturns ==
    /\ other = "retrieveTerms"
    /\ other' = "idle"
    /\ UNCHANGED <<cfgVars, pc, argVars, accVars, queueVars, outVars, numDocs, prev>>

\* no setter runs while the threads call: one configuration per behaviour,
\* its field set empty or set by the caller to a part of the indexed fields
InitConc ==
    /\ minTermFreq = 0
    /\ minDocFreq = 0
    /\ maxDocFreq = DEFAULT_MAX_DOC_FREQ
    /\ maxQueryTerms \in 1..(MaxQT - 1)
    /\ hasBoost = DEFAULT_BOOST
    /\ boostFactor = 1
    /\ fieldNames \in {{}, {F1}, {F2}}
    /\ stopWords = {}
    /\ analyzer = TRUE
    /\ maxNumTokensParsed = DEFAULT_MAX_NUM_TOKENS_PARSED
    /\ minWordLen = DEFAULT_MIN_WORD_LENGTH
    /\ maxWordLen = DEFAULT_MAX_WORD_LENGTH
    /\ CallReset
    /\ numDocs = NumDocs /\ prev = NoPrev /\ other = "idle"

NextConc ==
    \/ \E d \in Docs : Call_docNum("like", d)
    \/ \E d \in Docs : Call_docNum("retrieveInterestingTerms", d)
    \/ ReadFieldNames
    \/ \E f \in IndexedFields, rs \in ReaderLists : Like_readers(f, rs)
    \/ \E f \in IndexedFields, rs \in ReaderLists : RetrieveInterestingTerms_readers(f, rs)
    \/ RetrieveTermsField
    \/ RetrieveTermsReader
    \/ CreateQueueBegin
    \/ CreateQueueStep
    \/ CreateQueueReturn
    \/ CreateQueryStep
    \/ CreateQueryReturn
    \/ RetrieveInterestingTermsStep
    \/ RetrieveInterestingTermsReturn
    \/ ReturnToCaller
    \/ OtherLikeChecks
    \/ OtherLikeAssigns
    \/ OtherLikeReturns

SpecConc == InitConc /\ [][NextConc]_vars

(* --------- the token loop of addTermFrequencies, token by token --------- *)
\* limitReached that stops one token early
limitReached_OneEarly(n) == n >= maxNumTokensParsed

\* tokenCount > maxNumTokensParsed
limitReached(n) == n > maxNumTokensParsed

\* addTermFrequencies( r, perFieldTermFrequencies, fieldName ) up to
\* ts->reset(), for the next text source of retrieveTerms
AddTermFrequenciesEnter ==
    /\ pc = "retrieveTerms" /\ form \in {"readers", "reader"}
    /\ pendingReaders # << >>
    /\ IF analyzerMissing
       THEN /\ pc' = "failed"
            /\ UNCHANGED field2termFreqMap
       ELSE /\ pc' = "incrementToken"
            /\ field2termFreqMap' = WithField(field2termFreqMap, argField)
    /\ tokenCount' = 0
    /\ UNCHANGED <<envVars, cfgVars, argVars, pendingFields, pendingReaders,
                   tokensCounted, queueVars, outVars>>

\* ts->incrementToken() and, when it delivered a token, the body of the loop;
\* the stream has delivered tokenCount tokens so far
IncrementToken ==
    /\ pc = "incrementToken"
    /\ LET ts == Head(pendingReaders)
       IN  IF tokenCount = Len(ts)
           THEN /\ pc' = "tokenStreamEnd"
                /\ UNCHANGED <<tokenCount, field2termFreqMap, tokensCounted>>
           ELSE LET term == ts[tokenCount + 1]
                IN  /\ tokenCount' = tokenCount + 1
                    /\ IF limitReached(tokenCount + 1)
                       THEN /\ pc' = "tokenStreamEnd"
                            /\ UNCHANGED <<field2termFreqMap, tokensCounted>>
                       ELSE IF isNoiseWord(term)
                       THEN /\ pc' = pc
                            /\ UNCHANGED <<field2termFreqMap, tokensCounted>>
                       ELSE /\ pc' = pc
                            /\ field2termFreqMap' =
                                  [field2termFreqMap EXCEPT
                                      ![argField] = Increment(@, term, 1)]
                            /\ tokensCounted' = Increment(tokensCounted, argField, 1)
    /\ UNCHANGED <<envVars, cfgVars, argVars, pendingFields, pendingReaders,
                   queueVars, outVars>>

\* ts->end() and the return of addTermFrequencies to retrieveTerms
TokenStreamEnd ==
    /\ pc = "tokenStreamEnd"
    /\ pc' = "retrieveTerms"
    /\ pendingReaders' = Tail(pendingReaders)
    /\ tokenCount' = 0
    /\ UNCHANGED <<envVars, cfgVars, argVars, pendingFields, field2termFreqMap,
                   tokensCounted, queueVars, outVars>>

\* the setters the caller used: the token limit and the noise filter varied
InitTokens ==
    /\ minTermFreq = 0
    /\ minDocFreq = 0
    /\ maxDocFreq = DEFAULT_MAX_DOC_FREQ
    /\ maxQueryTerms = DEFAULT_MAX_QUERY_TERMS
    /\ hasBoost = DEFAULT_BOOST
    /\ boostFactor = 1
    /\ fieldNames = {}
    /\ stopWords \in {{}, {wB}}
    /\ analyzer \in BOOLEAN
    /\ maxNumTokensParsed \in {1, 3, DEFAULT_MAX_NUM_TOKENS_PARSED}
    /\ minWordLen \in {DEFAULT_MIN_WORD_LENGTH, 2}
    /\ maxWordLen \in {DEFAULT_MAX_WORD_LENGTH, 2}
    /\ CallReset
    /\ numDocs = NumDocs /\ prev = NoPrev /\ other = "idle"

NextTokens ==
    \/ \E f \in IndexedFields, rs \in ReaderLists : Like_readers(f, rs)
    \/ \E f \in IndexedFields, rs \in ReaderLists : RetrieveInterestingTerms_readers(f, rs)
    \/ \E f \in IndexedFields, r \in Texts : RetrieveInterestingTerms_reader(r, f)
    \/ AddTermFrequenciesEnter
    \/ IncrementToken
    \/ TokenStreamEnd
    \/ CreateQueueBegin
    \/ CreateQueueStep
    \/ CreateQueueReturn
    \/ CreateQueryStep
    \/ CreateQueryReturn
    \/ RetrieveInterestingTermsStep
    \/ RetrieveInterestingTermsReturn
    \/ ReturnToCaller

\* the thread inside the token loop keeps running
SpecTokens == InitTokens /\ [][NextTokens]_vars /\ WF_vars(IncrementToken)

(* -------------------------- setMaxDocFreqPct ---------------------------- *)
\* int32_t is 32 bits wide; its values are handled in two halves of 16 bits
HalfWord == 65536
SignBit == 32768

\* bits 16 and above of the exact product maxPercentage * numDocs
UpperHalf(maxPercentage, n) ==
    maxPercentage * (n \div HalfWord) + (maxPercentage * (n % HalfWord)) \div HalfWord

\* maxPercentage * reader->numDocs() does not fit int32_t
Overflows(maxPercentage, n) == UpperHalf(maxPercentage, n) >= SignBit

\* the low 32 bits of maxPercentage * reader->numDocs() read as an int32_t
WrappedProduct(maxPercentage, n) ==
    LET upper == UpperHalf(maxPercentage, n) % HalfWord
        lower == (maxPercentage * (n % HalfWord)) % HalfWord
    IN  (IF upper >= SignBit THEN upper - HalfWord ELSE upper) * HalfWord + lower

\* the / of C++ on int32_t: the quotient is truncated towards zero
TruncDiv(x, d) == IF x >= 0 THEN x \div d ELSE (x + (d - 1)) \div d

\* MoreLikeThis::setMaxDocFreqPct, called between two calls.  The signed
\* overflow of the product is undefined: the build either wraps or traps.
SetMaxDocFreqPct(maxPercentage) ==
    /\ pc = "idle"
    /\ \/ /\ maxDocFreq' = TruncDiv(WrappedProduct(maxPercentage, numDocs), 100)
          /\ pc' = pc
       \/ /\ Overflows(maxPercentage, numDocs)
          /\ pc' = "crashed"
          /\ maxDocFreq' = maxDocFreq
    /\ UNCHANGED <<stopWords, analyzer, minTermFreq, minDocFreq, hasBoost,
                   fieldNames, maxNumTokensParsed, minWordLen, maxWordLen,
                   maxQueryTerms, boostFactor>>
    /\ UNCHANGED <<argVars, accVars, queueVars, outVars, envVars>>

\* a MoreLikeThis as its constructor leaves it, over readers of several sizes
InitPct ==
    /\ stopWords = {} /\ analyzer = FALSE
    /\ minTermFreq = DEFAULT_MIN_TERM_FREQ
    /\ minDocFreq = DEFAULT_MIN_DOC_FREQ
    /\ maxDocFreq = DEFAULT_MAX_DOC_FREQ
    /\ hasBoost = DEFAULT_BOOST
    /\ fieldNames = {}
    /\ maxNumTokensParsed = DEFAULT_MAX_NUM_TOKENS_PARSED
    /\ minWordLen = DEFAULT_MIN_WORD_LENGTH
    /\ maxWordLen = DEFAULT_MAX_WORD_LENGTH
    /\ maxQueryTerms = DEFAULT_MAX_QUERY_TERMS
    /\ boostFactor = 1
    /\ CallReset
    /\ numDocs \in {NumDocs, 100, 21474836, 21474837, INT32_MAX}
    /\ prev = NoPrev /\ other = "idle"

NextPct == \E maxPercentage \in 0..100 : SetMaxDocFreqPct(maxPercentage)

SpecPct == InitPct /\ [][NextPct]_vars

(* ============================== claims ================================= *)
\* the K of the Top-K set: min(maxQueryTerms, distinct (field, term) pairs)
TopK == Min(maxQueryTerms, Cardinality(Entries(field2termFreqMap)))

\* C1: draining the Top-K set by repeated pop() yields the entries in
\* non-increasing score order: for drain positions i < j, score_i >= score_j.
C1_DrainDescending ==
    \A i \in DOMAIN drained : \A j \in DOMAIN drained :
        i < j => drained[i].score >= drained[j].score

\* C2: after every candidate processed by createQueue the retained scores are
\* the K largest scores among the candidates that passed the thresholds so
\* far: the set holds min(K, passed) of them and no passed candidate outside
\* the set has a score above a retained one.
C2_TopKLargest ==
    pc = "createQueue" =>
        /\ queue \subseteq passed
        /\ Cardinality(queue) = Min(TopK, Cardinality(passed))
        /\ \A st \in queue : \A c \in passed \ queue : c.score <= st.score

\* C2 witness: the set is full and a passed candidate has been left out of it
C2_Witness ==
    /\ pc = "createQueue"
    /\ Cardinality(queue) >= 2
    /\ Cardinality(queue) = TopK
    /\ \E c \in passed \ queue : \E st \in queue : c.score < st.score

\* C3: for a non-empty table and after any prefix of the insertions of
\* createQueue, the size of the Top-K set is at most
\* min(maxQueryTerms, distinct (field, term) pairs).
C3_SizeBound ==
    (pc \in {"createQueue", "createQuery", "retrieveInterestingTerms"}
        /\ Entries(field2termFreqMap) # {})
    => Cardinality(queue) <= TopK

\* C3 witness: a full set, with more candidates passed than it holds
C3_Witness ==
    /\ pc = "createQueue"
    /\ Entries(field2termFreqMap) # {}
    /\ Cardinality(queue) = TopK
    /\ TopK >= 1
    /\ Cardinality(passed) > TopK

\* C4: with boosting enabled and boostFactor > 0, in every query built by
\* createQuery the clause of the highest-scored term has weight exactly
\* boostFactor and every clause weight w satisfies 0 < w <= boostFactor.
C4_BoostBounded ==
    (pc = "done" /\ op = "like" /\ hasBoost /\ boostFactor > 0) =>
        \A i \in DOMAIN offered :
            LET b == offered[i].tq.boost
                s == drained[i].score
            IN  /\ 0 < b.num
                /\ b.num <= boostFactor * b.den
                /\ (\A d \in DOMAIN drained : drained[d].score <= s)
                      => b.num = boostFactor * b.den

\* tf and docFreq of an entry of the Top-K set
TfOf(st) == field2termFreqMap[st.field][st.word]

\* C5: a (field, term) with tf below minTermFreq (when minTermFreq > 0), or
\* with docFreq below minDocFreq (when minDocFreq > 0) or above maxDocFreq,
\* is never an entry of the Top-K set produced by createQueue.
C5_ThresholdFiltering ==
    \A st \in queue :
        /\ ~(minTermFreq > 0 /\ TfOf(st) < minTermFreq)
        /\ ~(minDocFreq > 0 /\ docFreqOf(st.field, st.word) < minDocFreq)
        /\ ~(docFreqOf(st.field, st.word) > maxDocFreq)

\* C5 witness: createQueue has finished with a non-empty set after visiting a
\* term below minTermFreq, one below minDocFreq and one above maxDocFreq
C5_Witness ==
    /\ pc \in {"createQuery", "retrieveInterestingTerms"}
    /\ queue # {}
    /\ \E e \in visited :
         minTermFreq > 0 /\ field2termFreqMap[e[1]][e[2]] < minTermFreq
    /\ \E e \in visited :
         /\ minDocFreq > 0 /\ docFreqOf(e[1], e[2]) < minDocFreq
         /\ ~(minTermFreq > 0 /\ field2termFreqMap[e[1]][e[2]] < minTermFreq)
    /\ \E e \in visited :
         /\ docFreqOf(e[1], e[2]) > maxDocFreq
         /\ ~(minTermFreq > 0 /\ field2termFreqMap[e[1]][e[2]] < minTermFreq)

\* fields retrieveTerms( docNum ) has accumulated from a frequency vector
VectorFieldsDone ==
    IF form = "docNum" /\ pc # "idle"
    THEN { f \in fieldNames \ pendingFields : getTermFreqVector(docNum, f).present }
    ELSE {}

\* (field, text) pairs the call has accumulated in token mode
TokenTextsDone ==
    IF pc \in {"idle", "failed"} THEN {}
    ELSE IF form = "docNum"
    THEN UNION { { <<f, getValues(docNum, f)[i]>> : i \in DOMAIN getValues(docNum, f) } :
                 f \in { g \in fieldNames \ pendingFields :
                             ~getTermFreqVector(docNum, g).present } }
    ELSE { <<argField, argReaders[i]>> :
               i \in 1..(Len(argReaders) - Len(pendingReaders)) }

\* C6: in both accumulation modes a term shorter than minWordLen (when
\* minWordLen > 0), longer than maxWordLen (when maxWordLen > 0) or in the
\* stop-word set is never a key of the FrequencyTable; with minWordLen = 0 and
\* maxWordLen = 0 no term of a frequency vector and no token among the first
\* maxNumTokensParsed of a text is excluded for its length.
C6_NoiseFiltering ==
    /\ \A f \in DOMAIN field2termFreqMap : \A w \in DOMAIN field2termFreqMap[f] :
          /\ ~(minWordLen > 0 /\ Len(w) < minWordLen)
          /\ ~(maxWordLen > 0 /\ Len(w) > maxWordLen)
          /\ w \notin stopWords
    /\ (minWordLen = 0 /\ maxWordLen = 0) =>
          \A f \in VectorFieldsDone :
              LET terms == getTermFreqVector(docNum, f).terms
              IN  \A i \in DOMAIN terms :
                      terms[i] \notin stopWords => terms[i] \in DOMAIN field2termFreqMap[f]
    /\ (minWordLen = 0 /\ maxWordLen = 0) =>
          \A ft \in TokenTextsDone : \A i \in DOMAIN ft[2] :
              (i <= maxNumTokensParsed /\ ft[2][i] \notin stopWords)
                  => ft[2][i] \in DOMAIN field2termFreqMap[ft[1]]

\* C6 witness: a table built in both modes under a length limit and a stop
\* word, from inputs that contain excluded terms
C6_Witness ==
    /\ pc = "createQueue" /\ form = "docNum" /\ docNum = 0
    /\ fieldNamesAtEntry = {F1, F2}
    /\ minWordLen > 0 /\ maxWordLen = 0 /\ stopWords # {}
    /\ DOMAIN field2termFreqMap = {F1, F2}
    /\ field2termFreqMap[F1] # EmptyMap
    /\ field2termFreqMap[F2] # EmptyMap

\* the clauses query->add accepted, in the order they were offered
IsAdded(o) == o.added
Accepted(offers) ==
    LET kept == SelectSeq(offers, IsAdded)
    IN  [i \in 1..Len(kept) |-> kept[i].tq]

\* C7: when query->add fails with TooManyClauses exactly that clause is
\* omitted: the clauses added before it are kept, every entry of the Top-K set
\* is still drained and offered, and like() returns normally.
C7_OverflowOmitsOneClause ==
    /\ pc \in {"createQuery", "done"} /\ op = "like" =>
          /\ query = Accepted(offered)
          /\ Len(offered) = Len(drained)
          /\ \A i \in DOMAIN offered :
                /\ offered[i].tq.field = drained[i].field
                /\ offered[i].tq.word = drained[i].word
    /\ pc = "done" /\ op = "like" =>
          /\ queue = {}
          /\ Len(offered) = Min(TopK, Cardinality(passed))

\* C7 witness: like() returned after TooManyClauses on the 2nd of 3 drained
\* terms, with the 1st and the 3rd clause in the query
C7_Witness ==
    /\ pc = "done" /\ op = "like"
    /\ Len(offered) = 3
    /\ offered[1].added /\ ~offered[2].added /\ offered[3].added
    /\ query = <<offered[1].tq, offered[3].tq>>

\* the call needs token mode: raw text input, or a requested (document, field)
\* pair without a frequency vector
TokenModeRequired ==
    \/ form \in {"readers", "reader"}
    \/ /\ form = "docNum"
       /\ \E f \in fieldNames : ~getTermFreqVector(docNum, f).present

\* the call has a text source to tokenize: a text source among the arguments,
\* or a stored value of a requested (document, field) pair without a vector
TextSourcePresent ==
    \/ form \in {"readers", "reader"} /\ argReaders # << >>
    \/ /\ form = "docNum"
       /\ \E f \in fieldNames :
            ~getTermFreqVector(docNum, f).present /\ getValues(docNum, f) # << >>

\* the call cannot get past accumulation and has produced nothing
CallCannotSucceed ==
    /\ pc \in {"retrieveTerms", "failed"}
    /\ ~(pc = "retrieveTerms" /\ pendingFields = {} /\ pendingReaders = << >>)
    /\ query = << >> /\ res = << >>

C9_TokenLimitPerField ==
    \A f \in DOMAIN tokensCounted : tokensCounted[f] <= maxNumTokensParsed

C12_AtMostMaxQueryTerms ==
    maxQueryTerms >= 0 =>
        /\ Len(query) <= maxQueryTerms
        /\ Len(res) <= maxQueryTerms

\* C12 witness: like returned maxQueryTerms clauses although more candidates
\* had passed the thresholds
C12_Witness ==
    /\ pc = "done" /\ op = "like"
    /\ maxQueryTerms >= 1
    /\ Len(query) = maxQueryTerms
    /\ Cardinality(passed) > maxQueryTerms

\* the claim's thresholds for an entry of the table
Survives(e) ==
    LET tf == field2termFreqMap[e[1]][e[2]]
        df == docFreqOf(e[1], e[2])
    IN  /\ ~(minTermFreq > 0 /\ tf < minTermFreq)
        /\ ~(minDocFreq > 0 /\ df < minDocFreq)
        /\ df <= maxDocFreq
        /\ df # 0

\* C13: when no candidate survives filtering (an empty table included) the
\* call raises no error, like returns a query without clauses and
\* retrieveInterestingTerms an empty list.
C13_NothingSurvives ==
    (pc \in {"createQueue", "createQuery", "retrieveInterestingTerms", "done", "crashed"}
        /\ \A e \in Entries(field2termFreqMap) : ~Survives(e))
    => /\ pc # "crashed"
       /\ queue = {} /\ query = << >> /\ res = << >>

\* C13 witness: a call returned after every entry of a non-empty table had
\* been filtered out
C13_Witness ==
    /\ pc = "done"
    /\ Entries(field2termFreqMap) # {}
    /\ \A e \in Entries(field2termFreqMap) : ~Survives(e)
    /\ visited = Entries(field2termFreqMap)

\* the step visits only entries whose document frequency is 0
VisitsZeroDocFreq ==
    /\ visited' \ visited # {}
    /\ \A e \in visited' \ visited : docFreqOf(e[1], e[2]) = 0

\* C16: a (field, term) whose document frequency is 0 is skipped without
\* error for every configuration: it never enters the Top-K set, the step
\* that visits it leaves the call running and the set as it was, and every
\* other entry of the table is still visited.
C16_ZeroDocFreqSkipped ==
    /\ [](\A st \in queue : docFreqOf(st.field, st.word) # 0)
    /\ [](pc \in {"createQuery", "retrieveInterestingTerms", "done"}
             => visited = Entries(field2termFreqMap))
    /\ [][VisitsZeroDocFreq => (pc' = pc /\ queue' = queue)]_vars

\* C16 witness: a call with minDocFreq = 0 returned terms after visiting an
\* entry of document frequency 0
C16_Witness ==
    /\ pc = "done" /\ minDocFreq = 0
    /\ drained # << >>
    /\ \E e \in visited : docFreqOf(e[1], e[2]) = 0

\* C18: with boosting enabled createQuery fixes bestScore to the score of the
\* first entry it drains, the first clause it builds gets weight boostFactor
\* and clause i gets boostFactor * score_i / bestScore; with boosting disabled
\* no clause weight is set.
C18_BoostFromFirstDrained ==
    (pc \in {"createQuery", "done"} /\ op = "like") =>
        IF hasBoost
        THEN /\ drained # << >> => bestScore = drained[1].score
             /\ \A i \in DOMAIN offered :
                   /\ offered[i].tq.boostSet
                   /\ offered[i].tq.boost =
                         [num |-> boostFactor * drained[i].score,
                          den |-> drained[1].score]
             /\ offered # << >> =>
                   offered[1].tq.boost.num = boostFactor * offered[1].tq.boost.den
        ELSE /\ bestScore = -1
             /\ \A i \in DOMAIN offered : ~offered[i].tq.boostSet

\* C18 witness: a boosted query of two clauses of different scores
C18_Witness ==
    /\ pc = "done" /\ op = "like" /\ hasBoost /\ boostFactor > 1
    /\ Len(query) >= 2
    /\ drained[1].score # drained[2].score

\* C19: the replacement decision of a full Top-K set uses the total order of
\* the set (score, then field and text), so after every candidate every
\* retained entry ranks above every passed candidate that is not retained.
C19_EvictionUsesTotalOrder ==
    pc = "createQueue" =>
        \A st \in queue : \A c \in passed \ queue : lessThan(c, st)

\* the clause additions accepted are exactly the first c of the offers
AcceptsPrefix(c) ==
    /\ c < Len(offered)
    /\ \A i \in DOMAIN offered : offered[i].added <=> i <= c

\* C20: when the disjunction accepts the first c clause additions and rejects
\* every later one, the clauses of the query are the c highest-scored entries
\* of the Top-K set.
C20_CapKeepsHighest ==
    (pc = "done" /\ op = "like") =>
        \A c \in 0..Len(offered) :
            AcceptsPrefix(c) =>
                \A i \in 1..c : \A j \in (c + 1)..Len(drained) :
                    drained[i].score >= drained[j].score

\* floor(pct * totalDocs / 100), computed without the product
PctOfDocs(pct, totalDocs) ==
    pct * (totalDocs \div 100) + (pct * (totalDocs % 100)) \div 100

\* C15: setMaxDocFreqPct(pct) sets maxDocFreq to floor(pct * totalDocs / 100)
\* for every pct in 0..100 and every int32 totalDocs, without wrap-around.
C15_PctOfTotalDocs ==
    [][\A pct \in 0..100 :
          SetMaxDocFreqPct(pct) =>
              (pc' = "idle" /\ maxDocFreq' = PctOfDocs(pct, numDocs))]_vars

\* a second call with the input and the configuration of the first has
\* returned, and no clause addition failed in either
SecondCallDone ==
    /\ pc = "done" /\ prev.op # "none" /\ prev.outcome = "done"
    /\ prev.fieldNamesAtEntry = fieldNamesAtEntry
    /\ prev.allAdded /\ \A i \in DOMAIN offered : offered[i].added

\* C11: two runs of the pipeline on the same configuration, document and
\* index, boosting off, give the same ordered term list and the same clauses,
\* whatever the enumeration order of the frequency table.
C11_SameResultTwice ==
    (SecondCallDone /\ prev.op = op) =>
        /\ prev.clauses = query
        /\ prev.texts = (IF op = "like" THEN TermTexts(query) ELSE res)

\* C14: retrieveInterestingTerms(x) returns the term texts of the clauses of
\* like(x) in the same order, for each input form, whichever is called first.
C14_TermsOfLikeClauses ==
    (SecondCallDone /\ prev.op # op) =>
        prev.texts = (IF op = "like" THEN TermTexts(query) ELSE res)

FieldNamesConfigured == fieldNames # {} /\ fieldNames # IndexedFields

C21_MinimumOfNonEmptySet ==
    [][(pc = "createQueue" /\ passed' # passed /\ ~(Cardinality(queue) < limit))
          => queue # {}]_vars

\* number of the first n tokens of ts that are the word w
CountIn(ts, n, w) == Cardinality({ i \in 1..Min(n, Len(ts)) : ts[i] = w })

\* the same, summed over text sources read to their end or to the limit
RECURSIVE CountInAll(_, _)
CountInAll(sources, w) ==
    IF sources = << >> THEN 0
    ELSE CountIn(Head(sources), maxNumTokensParsed, w) + CountInAll(Tail(sources), w)

\* the text sources of the call whose token loop has ended
SourcesDone == SubSeq(argReaders, 1, Len(argReaders) - Len(pendingReaders))

\* the count of w in the entry of the field of the call, 0 when it has no key
FreqOf(w) ==
    IF argField \in DOMAIN field2termFreqMap /\ w \in DOMAIN field2termFreqMap[argField]
    THEN field2termFreqMap[argField][w]
    ELSE 0

InTokenLoop == pc \in {"incrementToken", "tokenStreamEnd"}

\* C22: for each text source the token loop ends after at most
\* maxNumTokensParsed + 1 tokens were read from the stream, even when the
\* stream is longer; only tokens among the first maxNumTokensParsed are
\* counted, and tokens rejected by the noise filter use up the limit too.
C22_TokenLimitPerSource ==
    /\ [](InTokenLoop =>
            /\ tokenCount <= maxNumTokensParsed + 1
            /\ tokenCount <= Len(Head(pendingReaders)))
    /\ [](pc = "tokenStreamEnd" =>
            tokenCount = Min(Len(Head(pendingReaders)), maxNumTokensParsed + 1))
    /\ [](InTokenLoop =>
            \A w \in Words :
                FreqOf(w) =
                    IF isNoiseWord(w) THEN 0
                    ELSE CountInAll(SourcesDone, w)
                         + CountIn(Head(pendingReaders),
                                   Min(tokenCount, maxNumTokensParsed), w))
    /\ ((pc = "incrementToken") ~> (pc = "tokenStreamEnd"))

\* C22 witness: the loop ended at the limit on a longer stream, a noise token
\* among the first maxNumTokensParsed and a counted one after it
C22_Witness ==
    /\ pc = "tokenStreamEnd"
    /\ tokenCount = maxNumTokensParsed + 1
    /\ Len(Head(pendingReaders)) > maxNumTokensParsed + 1
    /\ \E i \in 1..maxNumTokensParsed, j \in 1..maxNumTokensParsed :
          /\ i < j
          /\ isNoiseWord(Head(pendingReaders)[i])
          /\ ~isNoiseWord(Head(pendingReaders)[j])
          /\ FreqOf(Head(pendingReaders)[j]) > 0

=============================================================================
